---- MODULE Spec2Model ----
(***************************************************************************)
(* Verification model of the audience-engagement pipeline:                 *)
(*   - the signaling relay (rooms map, join-room / signal / leave-room /   *)
(*     disconnect handlers),                                               *)
(*   - the LiveMonitor page (alert-check effect, record-engagement effect),*)
(*   - the useVideoProcessor tick loop,                                    *)
(*   - the AlertManager singleton,                                         *)
(*   - the phone camera link (PhoneCameraModal, PhoneCameraManager,        *)
(*     PhoneCameraSender) over the signaling relay.                        *)
(***************************************************************************)
EXTENDS Integers, Sequences, FiniteSets, TLC

(***************************************************************************)
(* Bounds of the model                                                     *)
(***************************************************************************)
NumSockets == 3
NumRooms == 2
NumBodies == 1
MaxLoops == 2         \* processFrame chains alive at once
MaxAlerts == 1        \* alerts the AlertManager raises in a behaviour
MaxFaces == 3         \* faces of one frame given to the aggregation
EpochNow == 100000    \* Date.now() when the page is opened
ClockSteps == 3       \* clock steps a behaviour takes
MaxOpens == 2         \* times the phone-camera modal is opened

Sockets == 1..NumSockets
RoomIds == 101..(100 + NumRooms)
Bodies == 1..NumBodies

NoSocket == 0
NoRoom == 0
NoRole == "none"
Roles == {"host", "phone"}
SignalTypes == {"offer", "answer", "ice-candidate"}

(***************************************************************************)
(* Signaling relay state                                                   *)
(***************************************************************************)
VARIABLES
    rooms,        \* Map<string, Room>: function from the ids of existing rooms
    currentRoom,  \* per connection closure variable
    currentRole,  \* per connection closure variable
    connected,    \* sockets whose connection is open
    sent,         \* emissions of the last handler, in order
    lastOp,       \* the event the last handler served
    hasLeft       \* sockets whose leave-room left a room, with no join since

sigVars == <<rooms, currentRoom, currentRole, connected, sent, lastOp, hasLeft>>

(***************************************************************************)
(* LiveMonitor page and useVideoProcessor hook state                       *)
(***************************************************************************)
VARIABLES
    now,               \* Date.now()
    isProcessing,      \* useVideoProcessor state
    isModelLoaded,     \* useVideoProcessor state
    metrics,           \* useVideoProcessor state (EngagementMetrics)
    alertThreshold,    \* LiveMonitor state
    lastAlertTime,     \* LiveMonitor state
    intervalDue,       \* next expiry of the record-engagement setInterval
    animationFrameRef, \* useVideoProcessor ref
    lastProcessTime,   \* lastProcessTimeRef
    loops,             \* processFrame chains: position, captured isProcessing
    videoReady,        \* video.readyState === 4
    alertLog,          \* createAlertMutation.mutate calls
    lastSampleAt,      \* time of the last recordEngagementMutation.mutate call
    activeSince,       \* since when isProcessing with faces has held
    alertedThisRun,    \* an alert was raised since the last startProcessing
    sampledThisRun,    \* metrics were published since the last startProcessing
    lastTickAt,        \* time of the last tick that went on to the detectors
    extracted,         \* faces the detectors returned to the last finished tick
    monOp              \* the handler that ran last

monVars == <<now, isProcessing, isModelLoaded, metrics, alertThreshold,
             lastAlertTime, intervalDue, animationFrameRef, lastProcessTime,
             loops, videoReady, alertLog, lastSampleAt, activeSince,
             alertedThisRun, sampledThisRun, lastTickAt, extracted, monOp>>

(***************************************************************************)
(* AlertManager singleton state                                            *)
(***************************************************************************)
VARIABLES
    settings,          \* AlertManager.settings
    amLastAlertTime,   \* AlertManager.lastAlertTime
    alertHistory,      \* AlertManager.alertHistory, newest first
    onAlertCallback,   \* whether AlertManager.onAlertCallback is set
    attempts,          \* channel calls of the last checkAndAlert, in order
    amOp               \* the last AlertManager call, its arguments and result

almVars == <<settings, amLastAlertTime, alertHistory, onAlertCallback,
             attempts, amOp>>

(***************************************************************************)
(* Scoring and aggregation applied to one input                            *)
(***************************************************************************)
VARIABLES
    observation,       \* what one scoring pathway is given for a face
    scored,            \* the engagementScore and emotionLabel it returns
    frameScores,       \* engagement scores of the faces of one frame
    aggregated         \* the metrics computed from them

fnVars == <<observation, scored, frameScores, aggregated>>

(***************************************************************************)
(* Phone camera link: PhoneCameraModal, PhoneCameraManager (host side),    *)
(* PhoneCameraSender (phone side) and their sockets                        *)
(***************************************************************************)
VARIABLES
    modal,             \* PhoneCameraModal: isOpen, status, and the status the
                       \* pending effect clean-up captured
    manager,           \* PhoneCameraManager: socket, peerConnection, videoStream
    tracks,            \* the tracks of the stream the manager delivered
    phoneStream,       \* LiveMonitor state: the phone stream is set
    sender,            \* PhoneCameraSender fields, its start timer
    wire,              \* per socket: events emitted, not yet served
    inbox,             \* per socket: events the server sent, not yet handled
    hostGotOffer,      \* handleOffer ran in this manager
    opens,             \* managers created so far
    linkOp             \* the step that ran last

linkVars == <<modal, manager, tracks, phoneStream, sender, wire, inbox,
              hostGotOffer, opens, linkOp>>

vars == <<sigVars, monVars, almVars, fnVars, linkVars>>

\* what a handler of one component leaves alone
restOfSignal == <<monVars, almVars, fnVars>>
restOfMonitor == <<sigVars, almVars, fnVars, linkVars>>
restOfAlertManager == <<sigVars, monVars, fnVars, linkVars>>
restOfFunctions == <<sigVars, monVars, almVars, linkVars>>
restOfLink == <<monVars, almVars, fnVars>>

NoMsg == [type |-> "none", roomId |-> NoRoom, from |-> NoRole, body |-> 0]

SignalMessage == [type : SignalTypes, roomId : RoomIds, from : Roles, body : Bodies]

EmptyRoom == [host |-> NoSocket, phone |-> NoSocket]

OtherRole(role) == IF role = "host" THEN "phone" ELSE "host"

Emit(to, event, role, msg) == [to |-> to, event |-> event, role |-> role, msg |-> msg]

Op(op, socket, roomId, role, msg) ==
    [op |-> op, socket |-> socket, roomId |-> roomId, role |-> role, msg |-> msg]

RemoveRoom(rms, roomId) == [r \in DOMAIN rms \ {roomId} |-> rms[r]]

PutRoom(rms, roomId, room) ==
    [r \in DOMAIN rms \cup {roomId} |-> IF r = roomId THEN room ELSE rms[r]]

\* leaveRoom without the clean-up of empty rooms
leaveRoom_KeepEmpty(rms, roomId, role) ==
    IF roomId \notin DOMAIN rms
    THEN [rooms |-> rms, sent |-> <<>>]
    ELSE LET room == [rms[roomId] EXCEPT ![role] = NoSocket]
             otherSocket == room[OtherRole(role)]
         IN  [rooms |-> PutRoom(rms, roomId, room),
              sent |-> IF otherSocket # NoSocket
                       THEN <<Emit(otherSocket, "peer-left", role, NoMsg)>>
                       ELSE <<>>]

\* leaveRoom that does not notify the other party
leaveRoom_Silent(rms, roomId, role) ==
    IF roomId \notin DOMAIN rms
    THEN [rooms |-> rms, sent |-> <<>>]
    ELSE LET room == [rms[roomId] EXCEPT ![role] = NoSocket]
         IN  [rooms |-> IF room.host = NoSocket /\ room.phone = NoSocket
                        THEN RemoveRoom(rms, roomId)
                        ELSE PutRoom(rms, roomId, room),
              sent |-> <<>>]

\* function leaveRoom(socket, roomId, role): the rooms map and the emissions
\* it produces
leaveRoom(rms, roomId, role) ==
    IF roomId \notin DOMAIN rms
    THEN [rooms |-> rms, sent |-> <<>>]
    ELSE LET room == [rms[roomId] EXCEPT ![role] = NoSocket]
             otherSocket == room[OtherRole(role)]
         IN  [rooms |-> IF room.host = NoSocket /\ room.phone = NoSocket
                        THEN RemoveRoom(rms, roomId)
                        ELSE PutRoom(rms, roomId, room),
              sent |-> IF otherSocket # NoSocket
                       THEN <<Emit(otherSocket, "peer-left", role, NoMsg)>>
                       ELSE <<>>]

\* the 'Leave previous room if any' step of join-room
leavePrevious(rms, s) ==
    IF currentRoom[s] # NoRoom
    THEN leaveRoom(rms, currentRoom[s], currentRole[s])
    ELSE [rooms |-> rms, sent |-> <<>>]

\* join-room notifying only the party that was already there
joinNotify_OtherOnly(room, s, role) ==
    LET otherSocket == room[OtherRole(role)]
    IN  IF otherSocket # NoSocket
        THEN <<Emit(otherSocket, "peer-joined", role, NoMsg)>>
        ELSE <<>>

\* 'Notify the other party if present' of join-room
joinNotify(room, s, role) ==
    LET otherSocket == room[OtherRole(role)]
    IN  IF otherSocket # NoSocket
        THEN <<Emit(otherSocket, "peer-joined", role, NoMsg),
               Emit(s, "peer-joined", OtherRole(role), NoMsg)>>
        ELSE <<>>

\* io.on('connection'): a fresh closure for the new socket
Connect(s) ==
    /\ UNCHANGED restOfSignal
    /\ ~connected[s]
    /\ connected' = [connected EXCEPT ![s] = TRUE]
    /\ currentRoom' = [currentRoom EXCEPT ![s] = NoRoom]
    /\ currentRole' = [currentRole EXCEPT ![s] = NoRole]
    /\ sent' = <<>>
    /\ lastOp' = Op("connection", s, NoRoom, NoRole, NoMsg)
    /\ hasLeft' = [hasLeft EXCEPT ![s] = FALSE]
    /\ UNCHANGED rooms

\* socket.on('join-room')
JoinRoom(s, roomId, role) ==
    /\ UNCHANGED restOfSignal
    /\ connected[s]
    /\ LET left == leavePrevious(rooms, s)
           created == IF roomId \in DOMAIN left.rooms
                      THEN left.rooms
                      ELSE PutRoom(left.rooms, roomId, EmptyRoom)
           room == [created[roomId] EXCEPT ![role] = s]
       IN  /\ rooms' = PutRoom(created, roomId, room)
           /\ sent' = left.sent \o joinNotify(room, s, role)
    /\ currentRoom' = [currentRoom EXCEPT ![s] = roomId]
    /\ currentRole' = [currentRole EXCEPT ![s] = role]
    /\ lastOp' = Op("join-room", s, roomId, role, NoMsg)
    /\ hasLeft' = [hasLeft EXCEPT ![s] = FALSE]
    /\ UNCHANGED connected

\* target of a relayed message chosen on the sender's side of the room
signalTarget_SameRole(rms, message) ==
    IF message.roomId \notin DOMAIN rms
    THEN NoSocket
    ELSE rms[message.roomId][message.from]

\* targetSocket of socket.on('signal')
signalTarget(rms, message) ==
    IF message.roomId \notin DOMAIN rms
    THEN NoSocket
    ELSE IF message.from = "host"
         THEN rms[message.roomId].phone
         ELSE rms[message.roomId].host

\* socket.on('signal')
Signal(s, message) ==
    /\ UNCHANGED restOfSignal
    /\ connected[s]
    /\ LET targetSocket == signalTarget(rooms, message)
       IN  sent' = IF targetSocket # NoSocket
                   THEN <<Emit(targetSocket, "signal", NoRole, message)>>
                   ELSE <<>>
    /\ lastOp' = Op("signal", s, message.roomId, message.from, message)
    /\ UNCHANGED <<rooms, currentRoom, currentRole, connected, hasLeft>>

\* socket.on('disconnect')
Disconnect(s) ==
    /\ UNCHANGED restOfSignal
    /\ connected[s]
    /\ LET left == IF currentRoom[s] # NoRoom /\ currentRole[s] # NoRole
                   THEN leaveRoom(rooms, currentRoom[s], currentRole[s])
                   ELSE [rooms |-> rooms, sent |-> <<>>]
       IN  /\ rooms' = left.rooms
           /\ sent' = left.sent
    /\ connected' = [connected EXCEPT ![s] = FALSE]
    \* the connection's closure dies with the socket
    /\ currentRoom' = [currentRoom EXCEPT ![s] = NoRoom]
    /\ currentRole' = [currentRole EXCEPT ![s] = NoRole]
    /\ lastOp' = Op("disconnect", s, currentRoom[s], currentRole[s], NoMsg)
    /\ UNCHANGED hasLeft

\* leave-room that keeps the closure variables as they were
resetClosure_Keep(closure, s, none) == closure

\* 'currentRoom = null; currentRole = null' of leave-room
resetClosure(closure, s, none) == [closure EXCEPT ![s] = none]

\* socket.on('leave-room')
LeaveRoomEvent(s) ==
    /\ UNCHANGED restOfSignal
    /\ connected[s]
    /\ IF currentRoom[s] # NoRoom /\ currentRole[s] # NoRole
       THEN LET left == leaveRoom(rooms, currentRoom[s], currentRole[s])
            IN  /\ rooms' = left.rooms
                /\ sent' = left.sent
                /\ currentRoom' = resetClosure(currentRoom, s, NoRoom)
                /\ currentRole' = resetClosure(currentRole, s, NoRole)
                /\ hasLeft' = [hasLeft EXCEPT ![s] = TRUE]
       ELSE /\ sent' = <<>>
            /\ UNCHANGED <<rooms, currentRoom, currentRole, hasLeft>>
    /\ lastOp' = Op("leave-room", s, currentRoom[s], currentRole[s], NoMsg)
    /\ UNCHANGED connected

InitSignal ==
    /\ rooms = <<>>
    /\ currentRoom = [s \in Sockets |-> NoRoom]
    /\ currentRole = [s \in Sockets |-> NoRole]
    /\ connected = [s \in Sockets |-> FALSE]
    /\ sent = <<>>
    /\ lastOp = Op("init", NoSocket, NoRoom, NoRole, NoMsg)
    /\ hasLeft = [s \in Sockets |-> FALSE]


(***************************************************************************)
(* useVideoProcessor: aggregate metrics                                    *)
(***************************************************************************)
ProcessInterval == 66
Cooldown == 30000
RecordInterval == 5000
DefaultThreshold == 40

\* the clock advances by half the interval a specification is about
AlertStep == Cooldown \div 2
EmitStep == RecordInterval \div 2
FrameStep == ProcessInterval \div 2

NoTime == -1
NoTimer == -1
Stale == -1      \* animationFrameRef holds the id of a request that is gone
NotExtracted == -1   \* the tick ended in the catch block, or no tick ended yet
LoopIds == 1..MaxLoops

SimScores == {60}
ThresholdVals == {DefaultThreshold, 90}

\* what the detectors return for one frame: the engagement scores of the
\* faces found (none, one bored, one engaged), or an exception
ScoreLists == {<<>>, <<20>>, <<80>>}

Extractions == [threw : {FALSE}, scores : ScoreLists]
                 \cup {[threw |-> TRUE, scores |-> <<>>]}

emotionLabel(engagementScore) ==
    IF engagementScore >= 65 THEN "engaged"
    ELSE IF engagementScore < 40 THEN "bored"
    ELSE "neutral"

CountLabel(scores, label) ==
    Cardinality({i \in 1..Len(scores) : emotionLabel(scores[i]) = label})

RECURSIVE SumSeq(_)
SumSeq(q) == IF q = <<>> THEN 0 ELSE Head(q) + SumSeq(Tail(q))

\* aggregate that takes the bored faces as a share of the engaged ones
aggregate_BoredOfEngaged(scores) ==
    LET boredCount == CountLabel(scores, "bored")
        engagedCount == CountLabel(scores, "engaged")
    IN  [totalFaces |-> Len(scores),
         boredCount |-> boredCount,
         engagedCount |-> engagedCount,
         neutralCount |-> CountLabel(scores, "neutral"),
         boredomPercentage |-> IF engagedCount > 0
                               THEN (boredCount * 100) \div engagedCount
                               ELSE 0,
         averageEngagementScore |-> IF Len(scores) > 0
                                    THEN SumSeq(scores) \div Len(scores)
                                    ELSE 0]

\* 'Calculate aggregate metrics'; the quotients are exact for the face counts
\* and scores of the model up to two faces and rounded down beyond that
aggregate(scores) ==
    LET totalFaces == Len(scores)
        boredCount == CountLabel(scores, "bored")
    IN  [totalFaces |-> totalFaces,
         boredCount |-> boredCount,
         engagedCount |-> CountLabel(scores, "engaged"),
         neutralCount |-> CountLabel(scores, "neutral"),
         boredomPercentage |-> IF totalFaces > 0
                               THEN (boredCount * 100) \div totalFaces
                               ELSE 0,
         averageEngagementScore |-> IF totalFaces > 0
                                    THEN SumSeq(scores) \div totalFaces
                                    ELSE 0]

InitialMetrics ==
    [totalFaces |-> 0, boredCount |-> 0, engagedCount |-> 0, neutralCount |-> 0,
     boredomPercentage |-> 0, averageEngagementScore |-> 0]

(***************************************************************************)
(* LiveMonitor effects, run after every render                             *)
(***************************************************************************)
\* alert check without the cooldown test
shouldAlert_NoCooldown(ip, m, th, t, last) ==
    /\ ip /\ m.totalFaces # 0
    /\ m.boredomPercentage >= th

\* alert check that takes an empty frame for a fully disengaged audience
shouldAlert_EmptyBreaches(ip, m, th, t, last) ==
    /\ ip
    /\ (m.totalFaces = 0 \/ m.boredomPercentage >= th)
    /\ t - last > Cooldown

\* the condition under which the alert-check effect calls triggerAlert
shouldAlert(ip, m, th, t, last) ==
    /\ ip /\ m.totalFaces # 0
    /\ m.boredomPercentage >= th
    /\ t - last > Cooldown

\* the record-engagement effect: clearInterval of the previous run, then
\* setInterval when processing with faces
recordEffect(ip, m, t) ==
    IF ip /\ m.totalFaces # 0 THEN t + RecordInterval ELSE NoTimer

\* the render that follows a state update, with the effects it runs
Render(ip, m, th, runAlerted) ==
    LET fire == shouldAlert(ip, m, th, now, lastAlertTime)
    IN  /\ lastAlertTime' = IF fire THEN now ELSE lastAlertTime
        /\ alertLog' = IF fire
                       THEN Append(alertLog,
                                   [at |-> now, totalFaces |-> m.totalFaces,
                                    boredomPercentage |-> m.boredomPercentage])
                       ELSE alertLog
        /\ alertedThisRun' = (runAlerted \/ fire)
        /\ intervalDue' = recordEffect(ip, m, now)
        /\ activeSince' = IF ip /\ m.totalFaces > 0
                          THEN IF activeSince = NoTime THEN now ELSE activeSince
                          ELSE NoTime

(***************************************************************************)
(* useVideoProcessor: the processFrame loop                                *)
(***************************************************************************)
Idle == [pc |-> "idle", cap |-> FALSE]

\* cancelAnimationFrame(id): the pending request with that id is dropped
cancel(lp, ref) ==
    [k \in LoopIds |-> IF k = ref /\ lp[k].pc = "scheduled" THEN Idle ELSE lp[k]]

\* processFrame that returns without a new request when the video is not ready
processFrame_NoRetry(lp, ref, k, cap) ==
    IF ~cap
    THEN [loops |-> [lp EXCEPT ![k] = Idle], ref |-> ref,
          last |-> lastProcessTime, tick |-> FALSE]
    ELSE IF now - lastProcessTime < ProcessInterval
    THEN [loops |-> [lp EXCEPT ![k] = [pc |-> "scheduled", cap |-> cap]],
          ref |-> k, last |-> lastProcessTime, tick |-> FALSE]
    ELSE IF ~videoReady
    THEN [loops |-> [lp EXCEPT ![k] = Idle], ref |-> ref,
          last |-> now, tick |-> FALSE]
    ELSE [loops |-> [lp EXCEPT ![k] = [pc |-> "inflight", cap |-> cap]],
          ref |-> ref, last |-> now, tick |-> TRUE]

\* the part of processFrame before its first await, run by chain k whose
\* closure captured isProcessing = cap: the chain's next position, the
\* ref and lastProcessTimeRef, and whether the frame went on to the detectors
processFrame(lp, ref, k, cap) ==
    IF ~cap
    THEN [loops |-> [lp EXCEPT ![k] = Idle], ref |-> ref,
          last |-> lastProcessTime, tick |-> FALSE]
    ELSE IF now - lastProcessTime < ProcessInterval
    THEN [loops |-> [lp EXCEPT ![k] = [pc |-> "scheduled", cap |-> cap]],
          ref |-> k, last |-> lastProcessTime, tick |-> FALSE]
    ELSE IF ~videoReady
    THEN [loops |-> [lp EXCEPT ![k] = [pc |-> "scheduled", cap |-> cap]],
          ref |-> k, last |-> now, tick |-> FALSE]
    ELSE [loops |-> [lp EXCEPT ![k] = [pc |-> "inflight", cap |-> cap]],
          ref |-> ref, last |-> now, tick |-> TRUE]

FreeLoop(lp) == CHOOSE k \in LoopIds : lp[k].pc = "idle" /\ \A j \in LoopIds : lp[j].pc = "idle" => k <= j

HasFreeLoop(lp) == \E k \in LoopIds : lp[k].pc = "idle"

\* the 'Process frames when processing is active' effect: clean-up of the
\* previous run, then processFrame() of the new render
processingEffect(ip, ml) ==
    LET cleaned == IF animationFrameRef # 0
                   THEN cancel(loops, animationFrameRef)
                   ELSE loops
        ref == IF animationFrameRef # 0 /\ cleaned # loops THEN Stale ELSE animationFrameRef
    IN  IF ip /\ ml
        THEN processFrame(cleaned, ref, FreeLoop(cleaned), ip)
        ELSE [loops |-> cleaned, ref |-> ref, last |-> lastProcessTime,
              tick |-> FALSE]

\* startProcessing (from startCamera / handlePhoneCameraConnect, after
\* video.play() resolved)
StartProcessing ==
    /\ ~isProcessing
    /\ HasFreeLoop(cancel(loops, animationFrameRef))
    /\ isProcessing' = TRUE
    /\ videoReady' = TRUE
    /\ LET e == processingEffect(TRUE, isModelLoaded)
       IN  /\ loops' = e.loops
           /\ animationFrameRef' = e.ref
           /\ lastProcessTime' = e.last
           /\ lastTickAt' = IF e.tick THEN now ELSE lastTickAt
    /\ sampledThisRun' = FALSE
    /\ Render(TRUE, metrics, alertThreshold, FALSE)
    /\ monOp' = "startProcessing"
    /\ UNCHANGED <<now, isModelLoaded, metrics, alertThreshold, lastSampleAt,
                   extracted>>

\* stopProcessing; clearSource tells stopCamera (srcObject = null) from the
\* callers that leave the video element alone
StopProcessing(clearSource) ==
    /\ isProcessing' = FALSE
    /\ videoReady' = IF clearSource THEN FALSE ELSE videoReady
    /\ LET stopped == IF animationFrameRef # 0
                      THEN cancel(loops, animationFrameRef)
                      ELSE loops
       IN  IF isProcessing
           THEN \* re-render: the effect's clean-up finds the ref null
                /\ loops' = stopped
                /\ animationFrameRef' = 0
                /\ Render(FALSE, metrics, alertThreshold, alertedThisRun)
           ELSE /\ loops' = stopped
                /\ animationFrameRef' = 0
                /\ UNCHANGED <<lastAlertTime, alertLog, alertedThisRun,
                               intervalDue, activeSince>>
    /\ monOp' = "stopProcessing"
    /\ UNCHANGED <<now, isModelLoaded, metrics, alertThreshold, lastProcessTime,
                   lastSampleAt, sampledThisRun, lastTickAt, extracted>>

\* loadModels: setIsModelLoaded(true)
ModelLoaded ==
    /\ ~isModelLoaded
    /\ isModelLoaded' = TRUE
    /\ LET e == processingEffect(isProcessing, TRUE)
       IN  /\ loops' = e.loops
           /\ animationFrameRef' = e.ref
           /\ lastProcessTime' = e.last
           /\ lastTickAt' = IF e.tick THEN now ELSE lastTickAt
    /\ Render(isProcessing, metrics, alertThreshold, alertedThisRun)
    /\ monOp' = "modelLoaded"
    /\ UNCHANGED <<now, isProcessing, metrics, alertThreshold, videoReady,
                   lastSampleAt, sampledThisRun, extracted>>

\* the browser runs a requested animation frame callback
AnimationFrame(k) ==
    /\ loops[k].pc = "scheduled"
    /\ LET ref == IF animationFrameRef = k THEN Stale ELSE animationFrameRef
           e == processFrame(loops, ref, k, loops[k].cap)
       IN  /\ loops' = e.loops
           /\ animationFrameRef' = e.ref
           /\ lastProcessTime' = e.last
           /\ lastTickAt' = IF e.tick THEN now ELSE lastTickAt
    /\ monOp' = "processFrame"
    /\ UNCHANGED <<now, isProcessing, isModelLoaded, metrics, alertThreshold,
                   lastAlertTime, intervalDue, videoReady, alertLog,
                   lastSampleAt, activeSince, alertedThisRun, sampledThisRun,
                   extracted>>

\* faces of one tick: analyzeFace of every detected face, or the simulated
\* face of the fallback branch
tickFaces(scores, sim) == IF Len(scores) > 0 THEN scores ELSE <<sim>>

\* the detectors answer: the rest of processFrame, after its awaits
FrameProcessed(k, x, sim) ==
    /\ loops[k].pc = "inflight"
    /\ extracted' = IF x.threw THEN NotExtracted ELSE Len(x.scores)
    /\ IF x.threw
       THEN /\ monOp' = "processFrameError"
            /\ UNCHANGED <<metrics, lastAlertTime, alertLog, alertedThisRun,
                           intervalDue, activeSince, sampledThisRun>>
       ELSE /\ metrics' = aggregate(tickFaces(x.scores, sim))
            /\ Render(isProcessing, metrics', alertThreshold, alertedThisRun)
            /\ sampledThisRun' = (sampledThisRun \/ isProcessing)
            /\ monOp' = "setMetrics"
    /\ IF loops[k].cap
       THEN /\ loops' = [loops EXCEPT ![k] = [pc |-> "scheduled", cap |-> loops[k].cap]]
            /\ animationFrameRef' = k
       ELSE /\ loops' = [loops EXCEPT ![k] = Idle]
            /\ UNCHANGED animationFrameRef
    /\ UNCHANGED <<now, isProcessing, isModelLoaded, alertThreshold,
                   lastProcessTime, videoReady, lastSampleAt, lastTickAt>>

\* the threshold slider
SetAlertThreshold(th) ==
    /\ th # alertThreshold
    /\ alertThreshold' = th
    /\ Render(isProcessing, metrics, th, alertedThisRun)
    /\ monOp' = "setAlertThreshold"
    /\ UNCHANGED <<now, isProcessing, isModelLoaded, metrics, animationFrameRef,
                   lastProcessTime, loops, videoReady, lastSampleAt, sampledThisRun,
                   lastTickAt, extracted>>

\* the setInterval callback of the record-engagement effect; the mutation's
\* state change re-renders the page
RecordEngagement ==
    /\ intervalDue # NoTimer
    /\ now >= intervalDue
    /\ lastSampleAt' = now
    /\ Render(isProcessing, metrics, alertThreshold, alertedThisRun)
    /\ monOp' = "recordEngagement"
    /\ UNCHANGED <<now, isProcessing, isModelLoaded, metrics, alertThreshold,
                   animationFrameRef, lastProcessTime, loops, videoReady,
                   sampledThisRun, lastTickAt, extracted>>

\* the video element starts or stops having a decoded frame
VideoReadyChange ==
    /\ videoReady' = ~videoReady
    /\ monOp' = "readyState"
    /\ UNCHANGED <<now, isProcessing, isModelLoaded, metrics, alertThreshold,
                   lastAlertTime, intervalDue, animationFrameRef, lastProcessTime,
                   loops, alertLog, lastSampleAt, activeSince, alertedThisRun,
                   sampledThisRun, lastTickAt, extracted>>

\* time passes; a due interval callback runs before the clock moves on
Advance(d) ==
    /\ now + d <= EpochNow + ClockSteps * d
    /\ intervalDue = NoTimer \/ now < intervalDue
    /\ now' = now + d
    /\ monOp' = "advance"
    /\ UNCHANGED <<isProcessing, isModelLoaded, metrics, alertThreshold,
                   lastAlertTime, intervalDue, animationFrameRef, lastProcessTime,
                   loops, videoReady, alertLog, lastSampleAt, activeSince,
                   alertedThisRun, sampledThisRun, lastTickAt, extracted>>

InitMonitor ==
    /\ now = EpochNow
    /\ isProcessing = FALSE
    /\ isModelLoaded = FALSE
    /\ metrics = InitialMetrics
    /\ alertThreshold = DefaultThreshold
    /\ lastAlertTime = 0
    /\ intervalDue = NoTimer
    /\ animationFrameRef = 0
    /\ lastProcessTime = 0
    /\ loops = [k \in LoopIds |-> Idle]
    /\ videoReady = FALSE
    /\ alertLog = <<>>
    /\ lastSampleAt = NoTime
    /\ activeSince = NoTime
    /\ alertedThisRun = FALSE
    /\ sampledThisRun = FALSE
    /\ lastTickAt = NoTime
    /\ extracted = NotExtracted
    /\ monOp = "init"

MonitorStep ==
    \/ StartProcessing
    \/ \E clearSource \in BOOLEAN : StopProcessing(clearSource)
    \/ ModelLoaded
    \/ \E k \in LoopIds : AnimationFrame(k)
    \/ \E k \in LoopIds, x \in Extractions, sim \in SimScores : FrameProcessed(k, x, sim)
    \/ \E th \in ThresholdVals : SetAlertThreshold(th)
    \/ RecordEngagement
    \/ VideoReadyChange

\* the page with its sliders and the video element
NextAlert ==
    \/ MonitorStep /\ UNCHANGED restOfMonitor
    \/ Advance(AlertStep) /\ UNCHANGED restOfMonitor

\* the processing loop and the record-engagement interval alone
EmitActions ==
    \/ StartProcessing
    \/ \E clearSource \in BOOLEAN : StopProcessing(clearSource)
    \/ ModelLoaded
    \/ \E k \in LoopIds : AnimationFrame(k)
    \/ \E k \in LoopIds, x \in Extractions, sim \in SimScores : FrameProcessed(k, x, sim)
    \/ RecordEngagement

NextEmit ==
    \/ EmitActions /\ UNCHANGED restOfMonitor
    \/ Advance(EmitStep) /\ UNCHANGED restOfMonitor

NextSched ==
    \/ MonitorStep /\ UNCHANGED restOfMonitor
    \/ Advance(FrameStep) /\ UNCHANGED restOfMonitor

\* the hook alone: its callers, the browser's callbacks and the video element
ReadyActions ==
    \/ StartProcessing
    \/ \E clearSource \in BOOLEAN : StopProcessing(clearSource)
    \/ ModelLoaded
    \/ \E k \in LoopIds : AnimationFrame(k)
    \/ \E k \in LoopIds, x \in Extractions, sim \in SimScores : FrameProcessed(k, x, sim)
    \/ VideoReadyChange

NextReady ==
    \/ ReadyActions /\ UNCHANGED restOfMonitor
    \/ Advance(FrameStep) /\ UNCHANGED restOfMonitor


(***************************************************************************)
(* AlertManager                                                            *)
(***************************************************************************)
CriticalThreshold == 40
WarningThreshold == 60
CooldownMs == 30000
CriticalBoredom == 60
WarningBoredom == 40
HistoryCap == 50

Channels == {"sound", "vibration", "pushover", "callback"}

DEFAULT_SETTINGS ==
    [criticalThreshold |-> CriticalThreshold,
     warningThreshold |-> WarningThreshold,
     cooldownMs |-> CooldownMs,
     enableSound |-> TRUE, enableVibration |-> TRUE, enableVisual |-> TRUE,
     enablePushover |-> FALSE,
     pushoverKeys |-> FALSE]     \* pushoverUserKey && pushoverApiToken

\* the switches of AlertSettings
SettingsFlags == {"enableSound", "enableVibration", "enableVisual",
                  "enablePushover", "pushoverKeys"}

\* arguments of checkAndAlert: values on both sides of every comparison
AvgEngagements == {CriticalThreshold - 1, CriticalThreshold, WarningThreshold}
BoredPercentages == {WarningBoredom, WarningBoredom + 1,
                     CriticalBoredom, CriticalBoredom + 1}

\* channels that fail during one triggerAlert: none, or any one of them
FailureSets == {{}} \cup {{channel} : channel \in Channels}

NoLevel == "none"

AmOp(op, avg, bored, result) ==
    [op |-> op, avgEngagement |-> avg, boredPercentage |-> bored, result |-> result]

\* severity that tests the warning condition first
alertLevel_WarningFirst(avgEngagement, boredPercentage, st) ==
    IF avgEngagement < st.warningThreshold \/ boredPercentage > WarningBoredom
    THEN "warning"
    ELSE IF avgEngagement < st.criticalThreshold \/ boredPercentage > CriticalBoredom
    THEN "critical"
    ELSE NoLevel

\* the level checkAndAlert selects once the cooldown has elapsed
alertLevel(avgEngagement, boredPercentage, st) ==
    IF avgEngagement < st.criticalThreshold \/ boredPercentage > CriticalBoredom
    THEN "critical"
    ELSE IF avgEngagement < st.warningThreshold \/ boredPercentage > WarningBoredom
    THEN "warning"
    ELSE NoLevel

Attempt(channel, fails) == <<[channel |-> channel, ok |-> channel \notin fails]>>

\* triggerAlert: the channel calls it makes, in order; playSound and
\* sendPushoverAlert catch their own errors, the callback's exception
\* propagates to the caller
triggerAlert(st, cb, fails) ==
    (IF st.enableSound THEN Attempt("sound", fails) ELSE <<>>)
    \o (IF st.enableVibration THEN Attempt("vibration", fails) ELSE <<>>)
    \o (IF st.enablePushover /\ st.pushoverKeys
        THEN Attempt("pushover", fails) ELSE <<>>)
    \o (IF cb THEN Attempt("callback", fails) ELSE <<>>)

\* alertHistory.unshift(alert), capped at HistoryCap entries
unshift(history, alert) ==
    LET h == <<alert>> \o history
    IN  IF Len(h) > HistoryCap THEN SubSeq(h, 1, Len(h) - 1) ELSE h

\* checkAndAlert that restarts the cooldown at every check it gets through
stampAlert_EveryCheck(level, t, last) == t

\* 'if (level) { ...; this.lastAlertTime = now; ... }' of checkAndAlert
stampAlert(level, t, last) == IF level # NoLevel THEN t ELSE last

\* checkAndAlert; an AlertEvent is kept as its timestamp and level
CheckAndAlert(avgEngagement, boredPercentage) ==
    /\ LET level == alertLevel(avgEngagement, boredPercentage, settings)
           quiet == /\ amOp' = AmOp("checkAndAlert", avgEngagement,
                                    boredPercentage, "null")
                    /\ attempts' = <<>>
                    /\ UNCHANGED <<amLastAlertTime, alertHistory>>
       IN  IF now - amLastAlertTime < settings.cooldownMs
           THEN quiet
           ELSE IF level = NoLevel
           THEN /\ amOp' = AmOp("checkAndAlert", avgEngagement,
                                boredPercentage, "null")
                /\ attempts' = <<>>
                /\ amLastAlertTime' = stampAlert(level, now, amLastAlertTime)
                /\ UNCHANGED alertHistory
           ELSE /\ Len(alertHistory) < MaxAlerts
                /\ alertHistory' = unshift(alertHistory,
                                           [at |-> now, level |-> level])
                /\ \E fails \in FailureSets :
                    /\ attempts' = triggerAlert(settings, onAlertCallback, fails)
                    /\ IF onAlertCallback /\ "callback" \in fails
                       THEN /\ amOp' = AmOp("checkAndAlert", avgEngagement,
                                            boredPercentage, "threw")
                            /\ UNCHANGED amLastAlertTime
                       ELSE /\ amOp' = AmOp("checkAndAlert", avgEngagement,
                                            boredPercentage, level)
                            /\ amLastAlertTime' = stampAlert(level, now,
                                                              amLastAlertTime)
    /\ UNCHANGED <<settings, onAlertCallback>>

\* updateSettings({ flag: checked }), one switch of a settings form
UpdateSettings(flag, checked) ==
    /\ settings[flag] # checked
    /\ settings' = [settings EXCEPT ![flag] = checked]
    /\ amOp' = AmOp("updateSettings", 0, 0, "null")
    /\ attempts' = <<>>
    /\ UNCHANGED <<amLastAlertTime, alertHistory, onAlertCallback>>

OnAlert ==
    /\ ~onAlertCallback
    /\ onAlertCallback' = TRUE
    /\ amOp' = AmOp("onAlert", 0, 0, "null")
    /\ attempts' = <<>>
    /\ UNCHANGED <<settings, amLastAlertTime, alertHistory>>

InitAlertManager ==
    /\ settings = DEFAULT_SETTINGS
    /\ amLastAlertTime = 0
    /\ alertHistory = <<>>
    /\ onAlertCallback = FALSE
    /\ attempts = <<>>
    /\ amOp = AmOp("init", 0, 0, "null")

NextAlertManager ==
    \/ /\ \E avgEngagement \in AvgEngagements, boredPercentage \in BoredPercentages :
               CheckAndAlert(avgEngagement, boredPercentage)
       /\ UNCHANGED restOfAlertManager
    \/ /\ \E flag \in SettingsFlags, checked \in BOOLEAN : UpdateSettings(flag, checked)
       /\ UNCHANGED restOfAlertManager
    \/ OnAlert /\ UNCHANGED restOfAlertManager
    \/ Advance(AlertStep) /\ UNCHANGED restOfMonitor


(***************************************************************************)
(* Scoring pathways: analyzeFace and the simulated face of the hook,       *)
(* analyzeEngagement of the earlier hook, FaceDetector of phoneCameraLink  *)
(***************************************************************************)
Deduct(indicator, points) == IF indicator THEN points ELSE 0

\* a score that is returned as computed
clamp_None(score) == score

\* Math.max(0, Math.min(100, score))
clamp(score) ==
    LET upper == IF score < 100 THEN score ELSE 100
    IN  IF upper > 0 THEN upper ELSE 0

\* analyzeFace: indicators from the measures, then the score
analyzeFace(o) ==
    LET isLookingDown == o.pitch > 20
        lowMovement == o.movement < 10
        score == 70
                 - Deduct(o.isYawning, 25) - Deduct(isLookingDown, 20)
                 - Deduct(o.eyesClosed, 15) - Deduct(o.isSlumped, 15)
                 - Deduct(lowMovement, 10) - Deduct(o.isFrowning, 10)
                 + Deduct(o.movement > 30, 10)
                 + Deduct(o.pitch < 10 /\ o.yaw < 15, 10)
        engagementScore == clamp(score)
    IN  [score |-> engagementScore, label |-> emotionLabel(engagementScore)]

\* the fallback face of processFrame
simulatedFace(o) ==
    LET raw == 60 + o.variation
        upper == IF raw < 90 THEN raw ELSE 90
        engagementScore == IF upper > 20 THEN upper ELSE 20
    IN  [score |-> engagementScore, label |-> emotionLabel(engagementScore)]

\* analyzeEngagement of src/client/src/hooks/useVideoProcessor.ts
analyzeEngagement(o) ==
    LET isYawning == FALSE
        score == 50 - Deduct(o.isLookingDown, 30) - Deduct(isYawning, 20)
                 - Deduct(o.isSlumped, 20)
        engagementScore == clamp(score)
    IN  [score |-> engagementScore,
         label |-> IF engagementScore >= 70 THEN "engaged"
                   ELSE IF engagementScore < 40 THEN "bored"
                   ELSE "neutral"]

\* FaceDetector.getEmotionLabel
getEmotionLabel(engagement) ==
    IF engagement >= 70 THEN "engaged"
    ELSE IF engagement < 50 THEN "bored"
    ELSE "neutral"

\* FaceDetector.calculateEngagement; an expression field tells whether the
\* expression's probability is above the value it is compared with
calculateEngagement(o) ==
    LET score == 100
                 - Deduct(o.sad, 20) - Deduct(o.angry, 15)
                 - Deduct(o.fearful, 10) - Deduct(o.disgusted, 10)
                 - Deduct(o.neutral, 10)
                 + Deduct(o.happy, 15) + Deduct(o.surprised, 10)
                 - Deduct(o.isYawning, 30) - Deduct(o.isLookingDown, 20)
    IN  clamp(score)

detectFaces(o) ==
    LET engagement == calculateEngagement(o)
    IN  [score |-> engagement, label |-> getEmotionLabel(engagement)]

\* measures on both sides of the comparisons of analyzeFace
Movements == {5, 20, 40}
Pitches == {0, 15, 25}
Yaws == {0, 20}
Variations == (0 - 20)..20      \* Math.sin(...) * 20

Observations ==
    [pathway : {"analyzeFace"}, isYawning : BOOLEAN, eyesClosed : BOOLEAN,
     isSlumped : BOOLEAN, isFrowning : BOOLEAN, movement : Movements,
     pitch : Pitches, yaw : Yaws]
    \cup [pathway : {"simulatedFace"}, variation : Variations]
    \cup [pathway : {"analyzeEngagement"}, isLookingDown : BOOLEAN,
          isSlumped : BOOLEAN]
    \cup [pathway : {"FaceDetector"}, sad : BOOLEAN, angry : BOOLEAN,
          fearful : BOOLEAN, disgusted : BOOLEAN, neutral : BOOLEAN,
          happy : BOOLEAN, surprised : BOOLEAN, isYawning : BOOLEAN,
          isLookingDown : BOOLEAN]

NotScored == [score |-> 0 - 1, label |-> "none"]

ScoreFace ==
    /\ scored = NotScored
    /\ scored' = CASE observation.pathway = "analyzeFace" -> analyzeFace(observation)
                   [] observation.pathway = "simulatedFace" -> simulatedFace(observation)
                   [] observation.pathway = "analyzeEngagement" -> analyzeEngagement(observation)
                   [] observation.pathway = "FaceDetector" -> detectFaces(observation)
    /\ UNCHANGED <<observation, frameScores, aggregated>>

\* scores on both sides of the label boundaries
FaceScores == {0, 39, 40, 64, 65, 100}

RECURSIVE SeqsUpTo(_, _)
SeqsUpTo(S, n) ==
    IF n = 0 THEN {<<>>}
    ELSE LET shorter == SeqsUpTo(S, n - 1)
         IN  shorter \cup {Append(q, x) : q \in shorter, x \in S}

\* three bored faces of ten
TenFaces == <<0, 39, 39, 40, 40, 64, 64, 65, 65, 100>>

FrameScoreLists == SeqsUpTo(FaceScores, MaxFaces) \cup {TenFaces}

NotAggregated == [totalFaces |-> 0 - 1]

Aggregate ==
    /\ aggregated = NotAggregated
    /\ aggregated' = aggregate(frameScores)
    /\ UNCHANGED <<observation, scored, frameScores>>

\* the specifications of the other components hold these at one input
InitFunctions ==
    /\ observation = [pathway |-> "simulatedFace", variation |-> 0]
    /\ scored = NotScored
    /\ frameScores = <<>>
    /\ aggregated = NotAggregated

InitScore ==
    /\ observation \in Observations
    /\ scored = NotScored
    /\ frameScores = <<>>
    /\ aggregated = NotAggregated

InitAggregate ==
    /\ observation = [pathway |-> "simulatedFace", variation |-> 0]
    /\ scored = NotScored
    /\ frameScores \in FrameScoreLists
    /\ aggregated = NotAggregated

NextScore == ScoreFace /\ UNCHANGED restOfFunctions

NextAggregate == Aggregate /\ UNCHANGED restOfFunctions


(***************************************************************************)
(* Phone camera link                                                       *)
(***************************************************************************)
HostSocket == 1     \* the socket PhoneCameraManager.startListening opens
PhoneSocket == 2    \* the socket PhoneCameraSender.startSending opens
LinkRoom == 101     \* the manager's roomId, carried to the phone by the URL

LinkSockets == {HostSocket, PhoneSocket}

LinkRole(s) == IF s = HostSocket THEN "host" ELSE "phone"

LinkMessage(type, from) ==
    [type |-> type, roomId |-> LinkRoom, from |-> from, body |-> 1]

Wire(event, msg) == [event |-> event, msg |-> msg]

\* socket.emit('leave-room'); socket.disconnect()
hangUp(w, s) ==
    [w EXCEPT ![s] = @ \o <<Wire("leave-room", NoMsg), Wire("disconnect", NoMsg)>>]

\* PhoneCameraManager.disconnect(): the manager, the delivered stream's
\* tracks, the host's emissions and the events its socket still delivers
managerDisconnect(m, tr, w, ib) ==
    [manager |-> [socket |-> FALSE, peerConnection |-> FALSE,
                  videoStream |-> FALSE],
     tracks |-> IF m.videoStream THEN "stopped" ELSE tr,
     wire |-> IF m.socket THEN hangUp(w, HostSocket) ELSE w,
     inbox |-> IF m.socket THEN [ib EXCEPT ![HostSocket] = <<>>] ELSE ib]

\* the clean-up returned by the modal's effect; the 'status' it tests is the
\* value of the render in which the effect ran
effectCleanup(captured, m, tr, w, ib) ==
    IF captured # "connected"
    THEN managerDisconnect(m, tr, w, ib)
    ELSE [manager |-> m, tracks |-> tr, wire |-> w, inbox |-> ib]

\* the modal's effect when isOpen turns true: new PhoneCameraManager,
\* setStatus('waiting'), manager.startListening()
OpenModal ==
    /\ ~modal.isOpen
    /\ ~manager.socket /\ ~manager.peerConnection
    /\ wire[HostSocket] = <<>> /\ ~connected[HostSocket]
    /\ opens < MaxOpens
    /\ opens' = opens + 1
    /\ modal' = [isOpen |-> TRUE, status |-> "waiting", captured |-> modal.status]
    /\ manager' = [socket |-> TRUE, peerConnection |-> FALSE, videoStream |-> FALSE]
    /\ wire' = [wire EXCEPT ![HostSocket] = <<Wire("connection", NoMsg)>>]
    /\ hostGotOffer' = FALSE
    /\ linkOp' = "openModal"
    /\ UNCHANGED <<tracks, phoneStream, sender, inbox, sigVars>>

\* handleClose of the dialog, then the effect clean-up of the render with
\* isOpen false
HandleClose ==
    /\ modal.isOpen
    /\ LET first == IF modal.status # "connected"
                    THEN managerDisconnect(manager, tracks, wire, inbox)
                    ELSE [manager |-> manager, tracks |-> tracks,
                          wire |-> wire, inbox |-> inbox]
           c == effectCleanup(modal.captured, first.manager, first.tracks,
                              first.wire, first.inbox)
       IN  /\ manager' = c.manager
           /\ tracks' = c.tracks
           /\ wire' = c.wire
           /\ inbox' = c.inbox
    /\ modal' = [modal EXCEPT !.isOpen = FALSE, !.captured = "none"]
    /\ linkOp' = "handleClose"
    /\ UNCHANGED <<phoneStream, sender, hostGotOffer, opens, sigVars>>

\* peerConnection.ontrack of the manager: videoStream is set, the modal's
\* onStream callback sets status 'connected' and calls onConnect
\* (handlePhoneCameraConnect), which closes the modal; the effect clean-up
\* runs with the render that follows
StreamArrives ==
    /\ manager.peerConnection
    /\ ~manager.videoStream
    /\ LET m == [manager EXCEPT !.videoStream = TRUE]
           c == IF modal.isOpen
                THEN effectCleanup(modal.captured, m, "live", wire, inbox)
                ELSE [manager |-> m, tracks |-> "live", wire |-> wire,
                      inbox |-> inbox]
       IN  /\ manager' = c.manager
           /\ tracks' = c.tracks
           /\ wire' = c.wire
           /\ inbox' = c.inbox
    /\ modal' = [isOpen |-> FALSE, status |-> "connected", captured |-> "none"]
    /\ phoneStream' = TRUE
    /\ linkOp' = "onStream"
    /\ UNCHANGED <<sender, hostGotOffer, opens, sigVars>>

\* disconnectPhoneCamera of LiveMonitor
DisconnectPhoneCamera ==
    /\ phoneStream
    /\ tracks' = "stopped"
    /\ phoneStream' = FALSE
    /\ linkOp' = "disconnectPhoneCamera"
    /\ UNCHANGED <<modal, manager, sender, wire, inbox, hostGotOffer, opens, sigVars>>

\* the manager's socket handlers: connect, peer-joined, signal, peer-left
HostReceive ==
    /\ inbox[HostSocket] # <<>>
    /\ LET e == Head(inbox[HostSocket])
           rest == [inbox EXCEPT ![HostSocket] = Tail(@)]
       IN  /\ inbox' = rest
           /\ wire' =
                IF e.event = "connect"
                THEN [wire EXCEPT ![HostSocket] =
                        Append(@, Wire("join-room", NoMsg))]
                ELSE IF e.event = "signal" /\ e.msg.type = "offer"
                THEN [wire EXCEPT ![HostSocket] =
                        Append(@, Wire("signal", LinkMessage("answer", "host")))]
                ELSE wire
           /\ manager' = IF e.event = "signal" /\ e.msg.type = "offer"
                         THEN [manager EXCEPT !.peerConnection = TRUE]
                         ELSE manager
           /\ hostGotOffer' =
                (hostGotOffer \/ (e.event = "signal" /\ e.msg.type = "offer"))
           /\ modal' = IF e.event = "peer-left"
                       THEN [modal EXCEPT !.status = "waiting"]
                       ELSE modal
    /\ linkOp' = "hostReceive"
    /\ UNCHANGED <<tracks, phoneStream, sender, opens, sigVars>>

\* PhoneCameraSender.createOfferAndSend
createOfferAndSend(snd, w) ==
    IF snd.peerConnection
    THEN [sender |-> snd, wire |-> w]
    ELSE [sender |-> [snd EXCEPT !.peerConnection = TRUE],
          wire |-> IF snd.socket
                   THEN [w EXCEPT ![PhoneSocket] =
                           Append(@, Wire("signal", LinkMessage("offer", "phone")))]
                   ELSE w]

\* PhoneCameraSender.startSending, once getUserMedia has resolved
StartSending ==
    /\ ~sender.started
    /\ sender' = [sender EXCEPT !.started = TRUE, !.localStream = TRUE,
                                !.socket = TRUE, !.timer = TRUE]
    /\ wire' = [wire EXCEPT ![PhoneSocket] = <<Wire("connection", NoMsg)>>]
    /\ linkOp' = "startSending"
    /\ UNCHANGED <<modal, manager, tracks, phoneStream, inbox, hostGotOffer,
                   opens, sigVars>>

\* the setTimeout(..., 500) callback of startSending
StartTimer ==
    /\ sender.timer
    /\ LET o == createOfferAndSend([sender EXCEPT !.timer = FALSE], wire)
       IN  /\ sender' = o.sender
           /\ wire' = o.wire
    /\ linkOp' = "startTimer"
    /\ UNCHANGED <<modal, manager, tracks, phoneStream, inbox, hostGotOffer,
                   opens, sigVars>>

\* the sender's socket handlers: connect, peer-joined, signal, peer-left
PhoneReceive ==
    /\ inbox[PhoneSocket] # <<>>
    /\ LET e == Head(inbox[PhoneSocket])
           o == IF e.event = "peer-joined" /\ e.role = "host"
                THEN createOfferAndSend(sender, wire)
                ELSE IF e.event = "connect"
                THEN [sender |-> sender,
                      wire |-> [wire EXCEPT ![PhoneSocket] =
                                  Append(@, Wire("join-room", NoMsg))]]
                ELSE [sender |-> sender, wire |-> wire]
       IN  /\ sender' = o.sender
           /\ wire' = o.wire
    /\ inbox' = [inbox EXCEPT ![PhoneSocket] = Tail(@)]
    /\ linkOp' = "phoneReceive"
    /\ UNCHANGED <<modal, manager, tracks, phoneStream, hostGotOffer, opens, sigVars>>

\* PhoneCameraSender.stop(), called by the page once startSending has resolved
Stop ==
    /\ sender.started
    /\ ~sender.stopped
    /\ sender' = [sender EXCEPT !.stopped = TRUE, !.localStream = FALSE,
                                !.peerConnection = FALSE, !.socket = FALSE]
    /\ wire' = IF sender.socket THEN hangUp(wire, PhoneSocket) ELSE wire
    /\ inbox' = IF sender.socket THEN [inbox EXCEPT ![PhoneSocket] = <<>>] ELSE inbox
    /\ linkOp' = "stop"
    /\ UNCHANGED <<modal, manager, tracks, phoneStream, hostGotOffer, opens, sigVars>>

\* the client object still holds the socket the server writes to
SocketHeld(s) == IF s = HostSocket THEN manager.socket ELSE sender.socket

\* events the server emitted to socket c, as its client gets them
delivered(emitted, c) ==
    LET toC(e) == e.to = c
    IN  SelectSeq(emitted, toC)

\* the server serves the next event of socket s
Serve(s) ==
    /\ wire[s] # <<>>
    /\ LET e == Head(wire[s])
       IN  /\ \/ e.event = "connection" /\ Connect(s)
              \/ e.event = "join-room" /\ JoinRoom(s, LinkRoom, LinkRole(s))
              \/ e.event = "signal" /\ Signal(s, e.msg)
              \/ e.event = "leave-room" /\ LeaveRoomEvent(s)
              \/ e.event = "disconnect" /\ Disconnect(s)
           /\ inbox' = [c \in LinkSockets |->
                          IF ~SocketHeld(c)
                          THEN inbox[c]
                          ELSE inbox[c]
                               \o (IF e.event = "connection" /\ c = s
                                   THEN <<Emit(s, "connect", NoRole, NoMsg)>>
                                   ELSE <<>>)
                               \o delivered(sent', c)]
    /\ wire' = [wire EXCEPT ![s] = Tail(@)]
    /\ linkOp' = "serve"
    /\ UNCHANGED <<modal, manager, tracks, phoneStream, sender, hostGotOffer,
                   opens>>

InitLink ==
    /\ modal = [isOpen |-> FALSE, status |-> "waiting", captured |-> "none"]
    /\ manager = [socket |-> FALSE, peerConnection |-> FALSE, videoStream |-> FALSE]
    /\ tracks = "none"
    /\ phoneStream = FALSE
    /\ sender = [started |-> FALSE, stopped |-> FALSE, socket |-> FALSE,
                 peerConnection |-> FALSE, localStream |-> FALSE, timer |-> FALSE]
    /\ wire = [s \in LinkSockets |-> <<>>]
    /\ inbox = [s \in LinkSockets |-> <<>>]
    /\ hostGotOffer = FALSE
    /\ opens = 0
    /\ linkOp = "init"

NextLink ==
    \/ OpenModal /\ UNCHANGED restOfLink
    \/ HandleClose /\ UNCHANGED restOfLink
    \/ StreamArrives /\ UNCHANGED restOfLink
    \/ DisconnectPhoneCamera /\ UNCHANGED restOfLink
    \/ HostReceive /\ UNCHANGED restOfLink
    \/ StartSending /\ UNCHANGED restOfLink
    \/ StartTimer /\ UNCHANGED restOfLink
    \/ PhoneReceive /\ UNCHANGED restOfLink
    \/ Stop /\ UNCHANGED restOfLink
    \/ \E s \in LinkSockets : Serve(s)

Init ==
    InitSignal /\ InitMonitor /\ InitAlertManager /\ InitFunctions /\ InitLink

NextSignal ==
    \/ /\ \E s \in Sockets : Connect(s)
       /\ UNCHANGED linkVars
    \/ /\ \E s \in Sockets, roomId \in RoomIds, role \in Roles : JoinRoom(s, roomId, role)
       /\ UNCHANGED linkVars
    \/ /\ \E s \in Sockets, message \in SignalMessage : Signal(s, message)
       /\ UNCHANGED linkVars
    \/ /\ \E s \in Sockets : Disconnect(s)
       /\ UNCHANGED linkVars
    \/ /\ \E s \in Sockets : LeaveRoomEvent(s)
       /\ UNCHANGED linkVars

SpecSignal == Init /\ [][NextSignal]_vars

SpecAlert == Init /\ [][NextAlert]_vars

SpecEmit == Init /\ [][NextEmit]_vars

SpecSched == Init /\ [][NextSched]_vars

\* the tick loop with the browser running every requested animation frame
\* callback and the clock moving on
SpecReady ==
    /\ Init /\ [][NextReady]_vars
    /\ WF_vars(Advance(FrameStep) /\ UNCHANGED restOfMonitor)
    /\ \A k \in LoopIds : WF_vars(AnimationFrame(k) /\ UNCHANGED restOfMonitor)

SpecAlertManager == Init /\ [][NextAlertManager]_vars

ScoreInit ==
    InitSignal /\ InitMonitor /\ InitAlertManager /\ InitScore /\ InitLink

SpecScore == ScoreInit /\ [][NextScore]_vars

AggregateInit ==
    InitSignal /\ InitMonitor /\ InitAlertManager /\ InitAggregate /\ InitLink

SpecAggregate == AggregateInit /\ [][NextAggregate]_vars

SpecLink == Init /\ [][NextLink]_vars

\* the link with the server serving every event it is sent, the clients
\* handling every event they are delivered, and the start timer expiring
SpecLinkLive ==
    /\ Init /\ [][NextLink]_vars
    /\ \A s \in LinkSockets : WF_vars(Serve(s))
    /\ WF_vars(HostReceive /\ UNCHANGED restOfLink)
    /\ WF_vars(PhoneReceive /\ UNCHANGED restOfLink)
    /\ WF_vars(StartTimer /\ UNCHANGED restOfLink)

(***************************************************************************)
(* Signaling relay: properties                                             *)
(***************************************************************************)
IsJoin(op) == op.op = "join-room"

IsLeave(op) == op.op \in {"leave-room", "disconnect"} /\ op.roomId # NoRoom

RoomsWellFormed ==
    \A r \in DOMAIN rooms :
        /\ r \in RoomIds
        /\ rooms[r].host \in Sockets \cup {NoSocket}
        /\ rooms[r].phone \in Sockets \cup {NoSocket}
        /\ (rooms[r].host # NoSocket \/ rooms[r].phone # NoSocket)

\* C5: every room of the map holds at most one socket per role and has at
\* least one role occupied; a join puts its room in the map with the joiner in
\* its role, and a room leaves the map only in a step that empties its last
\* occupied role.
C5_RoomLifetime ==
    /\ []RoomsWellFormed
    /\ [][/\ IsJoin(lastOp') =>
                /\ lastOp'.roomId \in DOMAIN rooms'
                /\ rooms'[lastOp'.roomId][lastOp'.role] = lastOp'.socket
          /\ \A r \in DOMAIN rooms \ DOMAIN rooms' :
                rooms[r].host = NoSocket \/ rooms[r].phone = NoSocket]_vars

C5_Witness ==
    /\ lastOp.op = "leave-room"
    /\ lastOp.roomId # NoRoom
    /\ lastOp.roomId \notin DOMAIN rooms
    /\ \E r \in DOMAIN rooms : rooms[r].host # NoSocket /\ rooms[r].phone # NoSocket

\* C6: a relayed message reaches, unmodified, exactly the occupant of the
\* role opposite to message.from in message.roomId; with no such room or
\* occupant nothing is emitted at all; the rooms map is left as it was.
C6_Relay ==
    [][lastOp'.op = "signal" =>
        LET m == lastOp'.msg
            target == IF m.roomId \in DOMAIN rooms
                      THEN rooms[m.roomId][OtherRole(m.from)]
                      ELSE NoSocket
        IN  /\ rooms' = rooms
            /\ sent' = IF target # NoSocket
                       THEN <<[to |-> target, event |-> "signal",
                               role |-> NoRole, msg |-> m]>>
                       ELSE <<>>]_vars

C6_Witness ==
    /\ lastOp.op = "signal"
    /\ Len(sent) = 1
    /\ sent[1].to # lastOp.socket
    /\ sent[1].msg = lastOp.msg
    /\ \E r \in DOMAIN rooms : r # lastOp.roomId

\* C7: a leave (leave-room or disconnect of a socket that is in a room)
\* clears the role's slot, emits peer-left naming the role to the occupant of
\* the opposite role when there is one and nothing otherwise, deletes the
\* room in that step when the opposite role is empty and keeps it otherwise.
C7_Leave ==
    [][IsLeave(lastOp') =>
        LET r == lastOp'.roomId
            role == lastOp'.role
        IN  IF r \in DOMAIN rooms
            THEN LET other == rooms[r][OtherRole(role)]
                 IN  /\ sent' = IF other # NoSocket
                                THEN <<[to |-> other, event |-> "peer-left",
                                        role |-> role, msg |-> NoMsg]>>
                                ELSE <<>>
                     /\ IF other = NoSocket
                        THEN r \notin DOMAIN rooms'
                        ELSE /\ r \in DOMAIN rooms'
                             /\ rooms'[r][role] = NoSocket
                             /\ rooms'[r][OtherRole(role)] = other
            ELSE rooms' = rooms /\ sent' = <<>>]_vars

C7_Witness ==
    /\ lastOp.op = "disconnect"
    /\ lastOp.roomId \in DOMAIN rooms
    /\ Len(sent) = 1
    /\ sent[1].event = "peer-left"
    /\ sent[1].to = rooms[lastOp.roomId][OtherRole(lastOp.role)]

PeerJoined(e) == e.event = "peer-joined"

PeerLeft(e) == e.event = "peer-left"

\* C8 as stated: a join whose opposite role is occupied emits peer-joined to
\* both parties, each naming the other's role; a join whose opposite role is
\* empty emits nothing to any socket.
C8_JoinSilentWhenAlone ==
    [][IsJoin(lastOp') =>
        LET s == lastOp'.socket
            role == lastOp'.role
            opp == rooms'[lastOp'.roomId][OtherRole(role)]
        IN  IF opp # NoSocket
            THEN /\ \E i \in 1..Len(sent') :
                        sent'[i] = [to |-> opp, event |-> "peer-joined",
                                    role |-> role, msg |-> NoMsg]
                 /\ \E i \in 1..Len(sent') :
                        sent'[i] = [to |-> s, event |-> "peer-joined",
                                    role |-> OtherRole(role), msg |-> NoMsg]
            ELSE sent' = <<>>]_vars

\* C8 amended: with the opposite role taken as the join finds it once the
\* joiner's previous membership has been left, an occupied opposite role
\* gets exactly the two peer-joined emissions and an empty one gets no
\* peer-joined; the only other emission of a join is at most one peer-left,
\* naming the joiner's previous role, to the opposite role of the room the
\* joiner was in before.
C8_JoinNotifies ==
    [][IsJoin(lastOp') =>
        LET s == lastOp'.socket
            role == lastOp'.role
            opp == rooms'[lastOp'.roomId][OtherRole(role)]
            pj == SelectSeq(sent', PeerJoined)
            pl == SelectSeq(sent', PeerLeft)
        IN  /\ Len(pj) + Len(pl) = Len(sent')
            /\ pj = IF opp # NoSocket
                    THEN <<[to |-> opp, event |-> "peer-joined",
                            role |-> role, msg |-> NoMsg],
                           [to |-> s, event |-> "peer-joined",
                            role |-> OtherRole(role), msg |-> NoMsg]>>
                    ELSE <<>>
            /\ Len(pl) <= 1
            /\ \A i \in 1..Len(pl) :
                    /\ currentRoom[s] \in DOMAIN rooms
                    /\ pl[i].role = currentRole[s]
                    /\ pl[i].to = rooms[currentRoom[s]][OtherRole(currentRole[s])]
                    /\ pl[i].to # NoSocket]_vars

C8_Witness ==
    /\ lastOp.op = "join-room"
    /\ rooms[lastOp.roomId][OtherRole(lastOp.role)] = NoSocket
    /\ Len(sent) = 1
    /\ sent[1].event = "peer-left"

(***************************************************************************)
(* Alerting, tick loop and sample emission: properties                     *)
(***************************************************************************)
Breaching(ip, m, th) == ip /\ m.totalFaces > 0 /\ m.boredomPercentage >= th

Later(a, b) == IF a >= b THEN a ELSE b

\* C1: any two alerts the page raises are at least the cooldown interval
\* apart, so no sample evaluated less than the cooldown after an alert raises
\* another one.
C1_CooldownBetweenAlerts ==
    \A i, j \in 1..Len(alertLog) :
        i < j => alertLog[j].at - alertLog[i].at >= Cooldown

C1_Witness ==
    /\ Len(alertLog) >= 1
    /\ monOp = "setMetrics"
    /\ now - lastAlertTime < Cooldown
    /\ now > lastAlertTime
    /\ Breaching(isProcessing, metrics, alertThreshold)

C3_AlertWhenCooldownElapsed ==
    [][(/\ monOp' = "setMetrics"
        /\ Breaching(isProcessing', metrics', alertThreshold')
        /\ now' - lastAlertTime >= Cooldown)
        => /\ Len(alertLog') = Len(alertLog) + 1
           /\ lastAlertTime' = now']_vars

\* C4: in every monitoring run the first breaching sample with faces raises
\* an alert, whatever alert the previous run raised.
C4_FreshCooldownAfterRestart ==
    (sampledThisRun /\ Breaching(isProcessing, metrics, alertThreshold))
        => alertedThisRun

\* C9: processFrame is never invoked while processing is stopped.
C9_NoTickAfterStop ==
    monOp = "processFrame" => isProcessing

\* C10: while processing with faces, a sample is recorded at least every
\* RecordInterval milliseconds.
C10_SampleEveryInterval ==
    activeSince # NoTime => now - Later(activeSince, lastSampleAt) <= RecordInterval

(***************************************************************************)
(* AlertManager: properties                                                *)
(***************************************************************************)
Attempted(channel) == \E i \in 1..Len(attempts) : attempts[i].channel = channel

\* the setting that enables a channel
ChannelEnabled(channel) ==
    CASE channel = "sound" -> settings.enableSound
      [] channel = "vibration" -> settings.enableVibration
      [] channel = "pushover" -> settings.enablePushover /\ settings.pushoverKeys
      [] channel = "callback" -> settings.enableVisual /\ onAlertCallback

AlertRaised == amOp.op = "checkAndAlert" /\ amOp.result # "null"

\* C12: when checkAndAlert raises an alert, a channel is called exactly when
\* it is enabled (the on-screen callback counting as enabled by enableVisual),
\* whichever of the channels fail.
C12_EnabledChannelsOnly ==
    AlertRaised => \A channel \in Channels : Attempted(channel) <=> ChannelEnabled(channel)

\* C13: a checkAndAlert call that raises an alert gives it the level critical
\* when avgEngagement < criticalThreshold or boredPercentage > 60, and warning
\* when that does not hold and avgEngagement < warningThreshold or
\* boredPercentage > 40; it raises none when neither condition holds, and
\* raises one when a condition holds and the cooldown has elapsed.
C13_Severity ==
    [][(amOp'.op = "checkAndAlert" /\ now' = now) =>
        LET avg == amOp'.avgEngagement
            bored == amOp'.boredPercentage
            critical == avg < settings.criticalThreshold \/ bored > CriticalBoredom
            warning == avg < settings.warningThreshold \/ bored > WarningBoredom
            raised == alertHistory' # alertHistory
        IN  /\ raised => /\ Len(alertHistory') = Len(alertHistory) + 1
                         /\ critical \/ warning
                         /\ Head(alertHistory').level =
                                IF critical THEN "critical" ELSE "warning"
                         /\ amOp'.result \in {Head(alertHistory').level, "threw"}
            /\ (~critical /\ ~warning) => (~raised /\ amOp'.result = "null")
            /\ ((critical \/ warning)
                    /\ now - amLastAlertTime >= settings.cooldownMs) => raised]_vars

C13_Witness ==
    /\ amOp.op = "checkAndAlert"
    /\ amOp.result = "critical"
    /\ amOp.avgEngagement < settings.warningThreshold
    /\ amOp.avgEngagement >= settings.criticalThreshold
    /\ amOp.boredPercentage > CriticalBoredom
    /\ Head(alertHistory).level = "critical"
    /\ \E i \in 1..Len(attempts) : ~attempts[i].ok


(***************************************************************************)
(* Tick loop, aggregation and scoring: properties                          *)
(***************************************************************************)
DocumentedInterval == 100    \* PROCESSING_INTERVAL of the README

\* C11: two consecutive ticks that go on to the detectors are at least
\* 100 ms apart, whichever chain runs them.
C11_ThrottleDocumented ==
    [][(lastTickAt' # lastTickAt /\ lastTickAt # NoTime)
        => lastTickAt' - lastTickAt >= DocumentedInterval]_vars

\* the boundaries the three labels are specified with
SpecifiedLabel(score) ==
    IF score >= 65 THEN "engaged"
    ELSE IF score < 40 THEN "bored"
    ELSE "neutral"

Aggregated == aggregated # NotAggregated

\* C14: the three counts of an aggregate sum to totalFaces, and with faces
\* boredomPercentage is boredCount * 100 / totalFaces (its whole part; 30 for
\* 3 bored of 10), within 0..100.
C14_CountsAndPercentage ==
    Aggregated =>
        /\ aggregated.totalFaces = Len(frameScores)
        /\ aggregated.engagedCount + aggregated.neutralCount + aggregated.boredCount
              = aggregated.totalFaces
        /\ aggregated.boredomPercentage \in 0..100
        /\ aggregated.totalFaces > 0 =>
              /\ aggregated.boredomPercentage * aggregated.totalFaces
                    <= aggregated.boredCount * 100
              /\ aggregated.boredCount * 100
                    < (aggregated.boredomPercentage + 1) * aggregated.totalFaces

C14_Witness ==
    /\ Aggregated
    /\ frameScores = TenFaces
    /\ aggregated.totalFaces = 10
    /\ aggregated.boredCount = 3
    /\ aggregated.boredomPercentage = 30

\* C15: a tick whose detectors return no face publishes totalFaces = 0,
\* boredomPercentage = 0 and averageEngagementScore = 0.
C15_EmptyExtraction ==
    (monOp = "setMetrics" /\ extracted = 0) =>
        /\ metrics.totalFaces = 0
        /\ metrics.boredomPercentage = 0
        /\ metrics.averageEngagementScore = 0

\* C16: every scoring pathway returns a score within 0..100.
C16_ScoreClamped ==
    scored # NotScored => scored.score \in 0..100

C16_Witness ==
    /\ observation.pathway = "FaceDetector"
    /\ observation.happy /\ observation.surprised
    /\ ~observation.sad /\ ~observation.angry /\ ~observation.fearful
    /\ ~observation.disgusted /\ ~observation.neutral
    /\ ~observation.isYawning /\ ~observation.isLookingDown
    /\ scored.score = 100

\* C17: every scoring pathway labels its score engaged from 65 up, bored
\* below 40 and neutral in between.
C17_SameBoundaries ==
    scored # NotScored => scored.label = SpecifiedLabel(scored.score)

TickPending == \E k \in LoopIds : loops[k].pc \in {"scheduled", "inflight"}

\* C18: a tick whose detectors throw publishes the aggregate of no faces,
\* and leaves a next tick requested while processing is active.
C18_ErrorTickIsEmpty ==
    monOp = "processFrameError" =>
        /\ metrics.totalFaces = 0
        /\ metrics.boredomPercentage = 0
        /\ metrics.averageEngagementScore = 0
        /\ isProcessing => TickPending

\* the end of the clock of the model
Horizon == EpochNow + ClockSteps * FrameStep

TickInProgress == \E k \in LoopIds : loops[k].pc = "inflight"

\* processing is active on a ready video, and the throttle window of the
\* last frame ends within the clock of the model
ReadyToProcess ==
    /\ isProcessing /\ isModelLoaded /\ videoReady
    /\ lastProcessTime + ProcessInterval <= Horizon

\* C19: a frame that finds the video not ready publishes nothing, raises no
\* error and requests the next frame; and when processing is active on a
\* ready video a frame eventually goes on to the detectors, unless processing
\* stops or the video stops being ready first.
C19_NotReadyRetries ==
    /\ [][(lastProcessTime' # lastProcessTime /\ ~videoReady') =>
            /\ metrics' = metrics
            /\ monOp' # "processFrameError"
            /\ lastTickAt' = lastTickAt
            /\ animationFrameRef' \in LoopIds
            /\ loops'[animationFrameRef'].pc = "scheduled"]_vars
    /\ ReadyToProcess ~> (TickInProgress \/ ~isProcessing \/ ~videoReady)

C19_Witness ==
    /\ monOp = "processFrame"
    /\ isProcessing /\ isModelLoaded /\ ~videoReady
    /\ lastProcessTime = now
    /\ lastTickAt # now
    /\ animationFrameRef \in LoopIds
    /\ loops[animationFrameRef].pc = "scheduled"

\* C20: while processing is stopped the published metrics do not change.
C20_NoPublishAfterStop ==
    [][~isProcessing => metrics' = metrics]_vars


(***************************************************************************)
(* Signaling relay: independence of rooms and membership                   *)
(***************************************************************************)
Occupant(rms, r, role) == IF r \in DOMAIN rms THEN rms[r][role] ELSE NoSocket

Occupants(rms, r) == {Occupant(rms, r, role) : role \in Roles} \ {NoSocket}

IsRoomOp(op) == op.op \in {"join-room", "signal", "leave-room", "disconnect"}

\* C21: rooms are independent.  A join, relay or leave that names room R
\* leaves every slot of every other room as it was and delivers nothing to
\* the occupants of another room; the one change allowed here to another room
\* is the removal of the acting socket itself from a slot it occupies (a
\* socket that moves from one room to the next), with the peer-left that goes
\* with it.
C21_RoomsIndependent ==
    [][IsRoomOp(lastOp') =>
        LET s == lastOp'.socket
            R == lastOp'.roomId
        IN  \A r \in RoomIds \ {R} :
                /\ \A role \in Roles :
                      \/ Occupant(rooms', r, role) = Occupant(rooms, r, role)
                      \/ /\ Occupant(rooms, r, role) = s
                         /\ Occupant(rooms', r, role) = NoSocket
                /\ s \notin Occupants(rooms, r) =>
                      /\ (r \in DOMAIN rooms') = (r \in DOMAIN rooms)
                      /\ \A i \in 1..Len(sent') :
                            sent'[i].to \notin Occupants(rooms, r)]_vars


\* C23: a leave or disconnect removes only the leaving socket.  When the
\* role the socket joined is held by another socket (the one that displaced
\* it), the leave keeps that occupant and the room, and sends no peer-left.
C23_LeaveRemovesOnlyItself ==
    [][IsLeave(lastOp') =>
        LET s == lastOp'.socket
            R == lastOp'.roomId
            role == lastOp'.role
            holder == Occupant(rooms, R, role)
        IN  (holder # NoSocket /\ holder # s) =>
                /\ R \in DOMAIN rooms'
                /\ Occupant(rooms', R, role) = holder
                /\ sent' = <<>>]_vars


\* C24: a signal is relayed only on behalf of a member.  A signal naming
\* room R and role r, sent by a socket that does not hold role r of room R,
\* delivers nothing.
C24_RelayOnlyForMembers ==
    [][lastOp'.op = "signal" =>
        LET m == lastOp'.msg
        IN  Occupant(rooms, m.roomId, m.from) # lastOp'.socket =>
                sent' = <<>>]_vars


\* C28: leaving is idempotent per socket.  The leave-room that takes a
\* socket out of its room sends exactly one peer-left when the other role is
\* occupied; a later leave-room or disconnect of that socket, with no join
\* in between, sends nothing and leaves the rooms map as the first left it.
C28_LeaveIdempotent ==
    [][lastOp'.op \in {"leave-room", "disconnect"} =>
        LET s == lastOp'.socket
        IN  /\ hasLeft[s] => (rooms' = rooms /\ sent' = <<>>)
            /\ (~hasLeft[s] /\ hasLeft'[s]) =>
                  LET left == SelectSeq(sent', PeerLeft)
                      peer == Occupant(rooms, lastOp'.roomId,
                                       OtherRole(lastOp'.role))
                  IN  /\ left = sent'
                      /\ Len(left) = IF peer # NoSocket THEN 1 ELSE 0
                      /\ \A i \in 1..Len(left) : left[i].to = peer]_vars

\* a socket that left a room where its peer stays has disconnected
C28_Witness ==
    /\ lastOp.op = "disconnect"
    /\ hasLeft[lastOp.socket]
    /\ lastOp.roomId = NoRoom
    /\ sent = <<>>
    /\ \E r \in DOMAIN rooms : Occupants(rooms, r) # {}


(***************************************************************************)
(* Tick loop: number of active chains                                      *)
(***************************************************************************)
ActiveLoops == {k \in LoopIds : loops[k].pc # "idle"}

\* C26: at any time at most one tick loop is active per video processor:
\* whatever the sequence of starts and stops, there is never more than one
\* pending or running tick.
C26_SingleTickLoop == Cardinality(ActiveLoops) <= 1


(***************************************************************************)
(* AlertManager: checks that raise no alert                                *)
(***************************************************************************)
\* C27: an alert check that raises no alert, because the cooldown has not
\* elapsed or because no threshold is breached, leaves lastAlertTime and the
\* alert history as they were.
C27_QuietCheckKeepsState ==
    [][(amOp'.op = "checkAndAlert" /\ now' = now /\ amOp'.result = "null") =>
        /\ amLastAlertTime' = amLastAlertTime
        /\ alertHistory' = alertHistory]_vars

\* a non-breaching sample checked once the cooldown of an earlier alert is over
C27_Witness ==
    /\ amOp.op = "checkAndAlert"
    /\ amOp.result = "null"
    /\ alertLevel(amOp.avgEngagement, amOp.boredPercentage, settings) = NoLevel
    /\ alertHistory # <<>>
    /\ amLastAlertTime = Head(alertHistory).at
    /\ now - amLastAlertTime >= settings.cooldownMs


(***************************************************************************)
(* Phone camera link: properties                                           *)
(***************************************************************************)
\* C22: when the phone-camera modal closes with status connected, after its
\* manager has delivered a stream, the manager is not disconnected: its peer
\* connection stays open and the delivered stream's tracks are not stopped,
\* so the monitor keeps the phone source.
C22_ConnectedManagerSurvivesClose ==
    [][(modal.isOpen /\ ~modal'.isOpen /\ modal'.status = "connected") =>
        /\ manager'.peerConnection
        /\ manager'.videoStream
        /\ tracks' = "live"]_vars


IsOffer(w) == w.event = "signal" /\ w.msg.type = "offer"

\* C29: after PhoneCameraSender.stop() the sender holds no peer connection
\* and creates none, and it sends no offer: neither the start timer nor a
\* peer-joined event that was pending at the stop does either.
C29_StoppedSenderStaysDown ==
    /\ [](sender.stopped => ~sender.peerConnection)
    /\ [][sender.stopped =>
            Len(SelectSeq(wire'[PhoneSocket], IsOffer))
                <= Len(SelectSeq(wire[PhoneSocket], IsOffer))]_vars


BothJoined ==
    /\ Occupant(rooms, LinkRoom, "host") = HostSocket
    /\ Occupant(rooms, LinkRoom, "phone") = PhoneSocket

\* a party has left: the sender was stopped or the manager was disconnected
SomeoneLeft == sender.stopped \/ ~manager.socket

\* C25: if a host and a phone both join the same room, in either order and
\* with any delay between the two joins, and neither leaves, then the host
\* eventually receives an offer from the phone.
C25_OfferReachesHost == (BothJoined /\ ~SomeoneLeft) ~> (hostGotOffer \/ SomeoneLeft)

====
